---------------------------- MODULE Spec2Model ----------------------------
(***************************************************************************)
(* Market data service: the query layer (crud.py, db.py), the REST         *)
(* endpoints (main.py) and the candle replay engine (ws.py).               *)
(*                                                                         *)
(* The store is the table `candles`.  What it holds for one (ticker,        *)
(* tf_min) is a history: rows at the timestamps 1..upto except the `holes`, *)
(* in ascending ts order (the order of the table's (ticker, tf_min, ts)     *)
(* key).  A row keeps its ts and one value column, volume, standing for the *)
(* six numeric columns that get_candles converts with float()/int(); the    *)
(* column is <<v>>, or <<>> (NULL) for the rows at the `nulls`.  A result   *)
(* set is the run of n rows of a history that starts at rank `first` and    *)
(* goes up or down, so that a list of 100000 candles is four numbers.       *)
(*                                                                         *)
(* A replay session is one run of replay_candles.  Its pc names the await  *)
(* that is pending; an action resolves that await with one of its          *)
(* outcomes and runs the code up to the next await.                        *)
(***************************************************************************)
EXTENDS Integers, Sequences, FiniteSets, TLC

VARIABLES db, sess, loop, resp

vars == <<db, sess, loop, resp>>

---------------------------------------------------------------------------
(* Settings (config.py) and literals of ws.py *)

DEFAULT_TF_MIN == 5
MAX_LIMIT == 5000
WS_DEFAULT_STEP_SECONDS == 15
WS_MAX_STEP_SECONDS == 60
WS_MIN_STEP_SECONDS == 1
REPLAY_LIMIT == 100000
NORMAL_CLOSURE == 1000
POLICY_VIOLATION == 1008
INTERNAL_ERROR == 1011

---------------------------------------------------------------------------
(* Bounds of the model *)

MaxTs == 3

Timestamps == 1..MaxTs

StoredTickers == {"ACME", "ZED"}
BlankTickers == {"", " "}
ReqTickers == StoredTickers \cup BlankTickers
StepChoices == {WS_MIN_STEP_SECONDS, WS_DEFAULT_STEP_SECONDS, WS_MAX_STEP_SECONDS}
TfChoices == {1, DEFAULT_TF_MIN}

DbKeys == {<<"ACME", DEFAULT_TF_MIN>>, <<"ACME", 1>>, <<"ZED", DEFAULT_TF_MIN>>}

StoreFaults == {"none", "connect_refused", "setup_error", "query_canceled", "query_error"}

LimitChoices == {0, 1, 2, MAX_LIMIT, MAX_LIMIT + 1}
TfInputs == {0} \cup TfChoices
OrderChoices == {"asc", "desc", "up"}

(* tickers in ascending order, and the characters of the tickers and prefixes used *)
TickerOrder == <<"ACME", "ZED">>
Chars == [ACME |-> <<"A", "C", "M", "E">>, ZED |-> <<"Z", "E", "D">>,
          ac |-> <<"a", "c">>, zz |-> <<"z", "z">>]
(* prefix argument: <<>> is None, <<p>> is the string p *)
PrefixChoices == {<<>>, <<"">>, <<"ac">>, <<"zz">>}

(* start/end query strings: an ISO timestamp without offset, with +00:00 or with a
   trailing Z, for the instant t (one without offset read as UTC), or a string that
   is no timestamp *)
TimeStrings ==
    {[form |-> f, t |-> t] : f \in {"naive", "offset", "Z"}, t \in 0..MaxTs}
        \cup {[form |-> "garbage", t |-> 0]}

(* start/end arguments of a direct call: datetime objects, or a value of another type *)
TimeValues ==
    {[kind |-> "datetime", tz |-> z, t |-> t] : z \in BOOLEAN, t \in 0..MaxTs}
        \cup {[kind |-> "str", tz |-> FALSE, t |-> 0]}

---------------------------------------------------------------------------
(* Helpers *)

Min2(a, b) == IF a < b THEN a ELSE b

Max2(a, b) == IF a > b THEN a ELSE b

SetMin(S) == CHOOSE x \in S : \A y \in S : x <= y

Reverse(q) == [i \in 1..Len(q) |-> q[Len(q) + 1 - i]]

IsPrefix(p, q) == Len(p) <= Len(q) /\ \A i \in 1..Len(p) : p[i] = q[i]

SetMax(S) == CHOOSE x \in S : \A y \in S : x >= y

(* the history with rows at the timestamps S, those at Z having a NULL column *)
HistoryOf(S, Z) ==
    [upto |-> IF S = {} THEN 0 ELSE SetMax(S),
     holes |-> IF S = {} THEN {} ELSE (1..SetMax(S)) \ S,
     nulls |-> Z]

EmptyHistory == HistoryOf({}, {})

Histories == {HistoryOf(p[1], p[2]) : p \in {q \in (SUBSET Timestamps) \X (SUBSET Timestamps) : q[2] \subseteq q[1]}}

(* number of rows of history h *)
Count(h) == h.upto - Cardinality(h.holes)

(* number of rows of h with ts < t *)
CountBelow(h, t) == Max2(0, Min2(t - 1, h.upto)) - Cardinality({g \in h.holes : g < t})

(* the ts of the i-th row of h, 1 <= i <= Count(h) *)
TsAt(h, i) ==
    CHOOSE t \in i..(i + Cardinality(h.holes)) : t \notin h.holes /\ CountBelow(h, t) = i - 1

RowAt(h, i) ==
    LET t == TsAt(h, i)
    IN  [ts |-> t, volume |-> IF t \in h.nulls THEN <<>> ELSE <<100 + t>>]

(* a result set: n rows of h from rank first, ascending (step 1) or descending (step -1) *)
ResultSet(h, first, step, n) == [hist |-> h, first |-> first, step |-> step, n |-> n]

RowOf(rows, i) == RowAt(rows.hist, rows.first + rows.step * (i - 1))

(* some row of the result set has a NULL column *)
HasNull(rows) ==
    \E t \in rows.hist.nulls :
        LET pos == (CountBelow(rows.hist, t) + 1 - rows.first) * rows.step + 1
        IN  pos \in 1..rows.n

---------------------------------------------------------------------------
(* db.py *)

get_conn(fault) ==
    IF fault = "connect_refused"
    THEN [exc |-> "DatabaseConnectionError",
          msg |-> "Cannot connect to database server",
          trace |-> <<"connect">>]
    ELSE IF fault = "setup_error"
    THEN [exc |-> "DatabaseConnectionError",
          msg |-> "Database connection error for server",
          trace |-> <<"connect", "set_statement_timeout">>]
    ELSE [exc |-> "none", msg |-> "",
          trace |-> <<"connect", "set_statement_timeout", "commit">>]

---------------------------------------------------------------------------
(* crud.py *)

strip(ticker) == IF ticker \in BlankTickers THEN "" ELSE ticker

Raised(type, msg, trace) == [exc |-> type, msg |-> msg, trace |-> trace]

Returned(value, trace) == [exc |-> "none", msg |-> "", value |-> value, trace |-> trace]

SelectCandles_LimitBeforeSort(store, ticker, tf_min, order, limit) ==
    LET key == <<ticker, tf_min>>
        matching == IF key \in DOMAIN store THEN store[key] ELSE EmptyHistory
        n == Min2(limit, Count(matching))
    IN  IF order = "desc" THEN ResultSet(matching, n, -1, n)
        ELSE ResultSet(matching, 1, 1, n)

(* SELECT ... FROM candles WHERE ticker = %s AND tf_min = %s ORDER BY ts {order} LIMIT %s *)
SelectCandles(store, ticker, tf_min, order, limit) ==
    LET key == <<ticker, tf_min>>
        matching == IF key \in DOMAIN store THEN store[key] ELSE EmptyHistory
        n == Min2(limit, Count(matching))
    IN  IF order = "desc" THEN ResultSet(matching, Count(matching), -1, n)
        ELSE ResultSet(matching, 1, 1, n)

Candle(ticker, tf_min, row) ==
    [ticker |-> ticker, tf_min |-> tf_min, ts |-> row.ts, volume |-> row.volume[1]]

(* the list of Candle objects built from a result set *)
CandleList(ticker, tf_min, rows) == [ticker |-> ticker, tf_min |-> tf_min, rows |-> rows]

NoCandles == CandleList("", 0, ResultSet(EmptyHistory, 1, 1, 0))

Length(candles) == candles.rows.n

CandleAt(candles, i) == Candle(candles.ticker, candles.tf_min, RowOf(candles.rows, i))

Items(candles) == [i \in 1..Length(candles) |-> CandleAt(candles, i)]

FetchCandles_ReturnsEmpty(ticker, tf_min, rows, notfound, fault) ==
    LET c == get_conn(fault)
    IN  IF c.exc # "none" THEN Raised(c.exc, c.msg, c.trace)
        ELSE IF fault \in {"query_canceled", "query_error"}
        THEN Raised("DatabaseConnectionError", "Database query error: ",
                    c.trace \o <<"execute", "close">>)
        ELSE LET done == c.trace \o <<"execute", "fetchall", "close">>
             IN  IF HasNull(rows)
                 THEN Raised("TypeError",
                             "float() argument must be a string or a real number, not 'NoneType'",
                             done)
                 ELSE Returned(CandleList(ticker, tf_min, rows), done)

(* the query and the row conversion shared by get_candles and get_candles_range *)
FetchCandles(ticker, tf_min, rows, notfound, fault) ==
    LET c == get_conn(fault)
    IN  IF c.exc # "none" THEN Raised(c.exc, c.msg, c.trace)
        ELSE IF fault = "query_canceled"
        THEN Raised("DatabaseConnectionError",
                    "Query timeout: Database operation took too long.",
                    c.trace \o <<"execute", "close">>)
        ELSE IF fault = "query_error"
        THEN Raised("DatabaseConnectionError", "Database query error: ",
                    c.trace \o <<"execute", "close">>)
        ELSE LET done == c.trace \o <<"execute", "fetchall", "close">>
             IN  IF rows.n = 0 THEN Raised("NotFoundError", notfound, done)
                 ELSE IF HasNull(rows)
                 THEN Raised("TypeError",
                             "float() argument must be a string or a real number, not 'NoneType'",
                             done)
                 ELSE Returned(CandleList(ticker, tf_min, rows), done)

get_candles(store, ticker, tf_min, limit, order, fault) ==
    IF strip(ticker) = ""
    THEN Raised("BadRequestError",
                "Invalid ticker parameter: " \o ticker \o ". Must be a non-empty string.", <<>>)
    ELSE IF tf_min < 1
    THEN Raised("BadRequestError",
                "Invalid tf_min parameter: " \o ToString(tf_min) \o ". Must be a positive integer.", <<>>)
    ELSE IF limit < 1
    THEN Raised("BadRequestError",
                "Invalid limit parameter: " \o ToString(limit) \o ". Must be a positive integer.", <<>>)
    ELSE IF order \notin {"asc", "desc"}
    THEN Raised("BadRequestError",
                "Invalid order parameter: " \o order \o ". Must be 'asc' or 'desc'", <<>>)
    ELSE FetchCandles(ticker, tf_min,
                      SelectCandles(store, ticker, tf_min, order, limit),
                      "No candles found for ticker '" \o ticker \o "' with timeframe "
                          \o ToString(tf_min) \o "min",
                      fault)

SelectCandlesRange_EndExclusive(store, ticker, tf_min, start, end, limit) ==
    LET key == <<ticker, tf_min>>
        matching == IF key \in DOMAIN store THEN store[key] ELSE EmptyHistory
        below == CountBelow(matching, start.t)
        within == Max2(0, CountBelow(matching, end.t) - below)
    IN  ResultSet(matching, below + 1, 1, Min2(limit, within))

(* SELECT ... WHERE ticker = %s AND tf_min = %s AND ts >= %s AND ts <= %s ORDER BY ts ASC LIMIT %s *)
SelectCandlesRange(store, ticker, tf_min, start, end, limit) ==
    LET key == <<ticker, tf_min>>
        matching == IF key \in DOMAIN store THEN store[key] ELSE EmptyHistory
        below == CountBelow(matching, start.t)
        within == Max2(0, CountBelow(matching, end.t + 1) - below)
    IN  ResultSet(matching, below + 1, 1, Min2(limit, within))

(* start > end on datetime objects: a naive and an aware one do not compare *)
DatetimeGt(a, b) ==
    IF a.tz # b.tz THEN [exc |-> "TypeError", gt |-> FALSE]
    ELSE [exc |-> "none", gt |-> a.t > b.t]

get_candles_range(store, ticker, tf_min, start, end, limit, fault) ==
    IF strip(ticker) = ""
    THEN Raised("BadRequestError",
                "Invalid ticker parameter: " \o ticker \o ". Must be a non-empty string.", <<>>)
    ELSE IF tf_min < 1
    THEN Raised("BadRequestError",
                "Invalid tf_min parameter: " \o ToString(tf_min) \o ". Must be a positive integer.", <<>>)
    ELSE IF start.kind # "datetime"
    THEN Raised("BadRequestError", "Invalid start parameter: " \o start.kind \o ". Must be a datetime object.", <<>>)
    ELSE IF end.kind # "datetime"
    THEN Raised("BadRequestError", "Invalid end parameter: " \o end.kind \o ". Must be a datetime object.", <<>>)
    ELSE IF limit < 1
    THEN Raised("BadRequestError",
                "Invalid limit parameter: " \o ToString(limit) \o ". Must be a positive integer.", <<>>)
    ELSE IF DatetimeGt(start, end).exc # "none"
    THEN Raised("TypeError", "can't compare offset-naive and offset-aware datetimes", <<>>)
    ELSE IF DatetimeGt(start, end).gt
    THEN Raised("BadRequestError", "Start datetime must be before or equal to end datetime", <<>>)
    ELSE FetchCandles(ticker, tf_min,
                      SelectCandlesRange(store, ticker, tf_min, start, end, limit),
                      "No candles found for ticker '" \o ticker \o "' with timeframe "
                          \o ToString(tf_min) \o "min in range "
                          \o ToString(start.t) \o " to " \o ToString(end.t),
                      fault)

Lower(ch) ==
    CASE ch = "A" -> "a" [] ch = "C" -> "c" [] ch = "D" -> "d" [] ch = "E" -> "e"
      [] ch = "M" -> "m" [] ch = "Z" -> "z" [] OTHER -> ch

RECURSIVE ILike(_, _)
(* text ILIKE pattern, on character sequences: % is any run, _ any one character *)
ILike(text, pattern) ==
    IF pattern = <<>> THEN text = <<>>
    ELSE IF Head(pattern) = "%"
    THEN \E k \in 0..Len(text) : ILike(SubSeq(text, k + 1, Len(text)), Tail(pattern))
    ELSE /\ text # <<>>
         /\ Head(pattern) = "_" \/ Lower(Head(pattern)) = Lower(Head(text))
         /\ ILike(Tail(text), Tail(pattern))

(* SELECT DISTINCT ticker FROM candles [WHERE ticker ILIKE %s] ORDER BY ticker ASC LIMIT %s *)
SelectSymbols(store, prefix, limit) ==
    LET present(t) == \E k \in DOMAIN store : k[1] = t /\ Count(store[k]) > 0
        wanted(t) ==
            /\ present(t)
            /\ (prefix # <<>> /\ prefix[1] # "") => ILike(Chars[t], Chars[prefix[1]] \o <<"%">>)
        ordered == SelectSeq(TickerOrder, wanted)
    IN  SubSeq(ordered, 1, Min2(limit, Len(ordered)))

(* the connection and the statement of list_symbols and get_first_last_ts *)
FetchValue(value, fault) ==
    LET c == get_conn(fault)
    IN  IF c.exc # "none" THEN Raised(c.exc, c.msg, c.trace)
        ELSE IF fault = "query_canceled"
        THEN Raised("DatabaseConnectionError",
                    "Query timeout: Database operation took too long.",
                    c.trace \o <<"execute", "close">>)
        ELSE IF fault = "query_error"
        THEN Raised("DatabaseConnectionError", "Database query error: ",
                    c.trace \o <<"execute", "close">>)
        ELSE Returned(value, c.trace \o <<"execute", "fetch", "close">>)

list_symbols(store, limit, prefix, fault) ==
    IF limit < 1
    THEN Raised("BadRequestError",
                "Invalid limit parameter: " \o ToString(limit) \o ". Must be a positive integer.", <<>>)
    ELSE FetchValue(SelectSymbols(store, prefix, limit), fault)

(* SELECT MIN(ts), MAX(ts) ...: <<first, last>>, or <<>> for None *)
get_first_last_ts(store, ticker, tf_min, fault) ==
    IF strip(ticker) = ""
    THEN Raised("BadRequestError",
                "Invalid ticker parameter: " \o ticker \o ". Must be a non-empty string.", <<>>)
    ELSE IF tf_min < 1
    THEN Raised("BadRequestError",
                "Invalid tf_min parameter: " \o ToString(tf_min) \o ". Must be a positive integer.", <<>>)
    ELSE LET key == <<ticker, tf_min>>
             matching == IF key \in DOMAIN store THEN store[key] ELSE EmptyHistory
         IN  FetchValue(IF Count(matching) = 0 THEN <<>>
                        ELSE <<TsAt(matching, 1), TsAt(matching, Count(matching))>>,
                        fault)

---------------------------------------------------------------------------
(* main.py: REST endpoints *)

Response(status, error, data, trace) ==
    [status |-> status, error |-> error, data |-> data, trace |-> trace]

(* CandleResponse(data=candles, count=len(candles)) *)
CandleResponse(candles, trace) ==
    [status |-> 200, error |-> "none", data |-> Items(candles), count |-> Length(candles),
     trace |-> trace]

(* {"symbols": symbols, "count": len(symbols)} *)
SymbolsResponse(symbols, trace) ==
    [status |-> 200, error |-> "none", data |-> symbols, count |-> Len(symbols),
     trace |-> trace]

(* the exception handlers of the app and the endpoints' `except Exception` *)
ErrorResponse(r) ==
    IF r.exc = "NotFoundError" THEN Response(404, r.exc, <<>>, r.trace)
    ELSE IF r.exc = "BadRequestError" THEN Response(400, r.exc, <<>>, r.trace)
    ELSE IF r.exc = "DatabaseConnectionError" THEN Response(503, r.exc, <<>>, r.trace)
    ELSE Response(500, "HTTPException", <<>>, r.trace)

(* a query parameter outside its declared Query(...) constraints: the handler is not called *)
ValidationError == Response(422, "RequestValidationError", <<>>, <<>>)

LimitAccepted_NoCeiling(limit) == limit >= 1

(* limit: Query(ge=1, le=settings.MAX_LIMIT) *)
LimitAccepted(limit) == limit >= 1 /\ limit <= MAX_LIMIT

(* GET /health: get_conn, then the probe SELECT 1 and conn.close() *)
health(fault) ==
    LET c == get_conn(fault)
    IN  IF c.exc # "none"
        THEN [status |-> 503, error |-> c.exc, data |-> <<>>, trace |-> c.trace,
              body |-> [status |-> "degraded", database |-> "disconnected"]]
        ELSE IF fault \in {"query_canceled", "query_error"}
        THEN [status |-> 200, error |-> "none", data |-> <<>>,
              trace |-> c.trace \o <<"execute">>,
              body |-> [status |-> "ok", database |-> "unknown"]]
        ELSE [status |-> 200, error |-> "none", data |-> <<>>,
              trace |-> c.trace \o <<"execute", "fetch", "close">>,
              body |-> [status |-> "ok", database |-> "connected"]]

get_symbols(store, limit, prefix, fault) ==
    IF ~LimitAccepted(limit) THEN ValidationError
    ELSE LET r == list_symbols(store, limit, prefix, fault)
         IN  IF r.exc = "none" THEN SymbolsResponse(r.value, r.trace)
             ELSE ErrorResponse(r)

get_candles_endpoint(store, ticker, tf_min, limit, order, fault) ==
    IF tf_min < 1 \/ ~LimitAccepted(limit) \/ order \notin {"asc", "desc"} THEN ValidationError
    ELSE LET r == get_candles(store, ticker, tf_min, limit, order, fault)
         IN  IF r.exc = "none" THEN CandleResponse(r.value, r.trace)
             ELSE ErrorResponse(r)

(* datetime.fromisoformat(text.replace('Z', '+00:00')) *)
ParseIso(text) ==
    LET replaced == IF text.form = "Z" THEN [text EXCEPT !.form = "offset"] ELSE text
    IN  IF replaced.form = "garbage"
        THEN [exc |-> "ValueError", dt |-> [kind |-> "str", tz |-> FALSE, t |-> 0]]
        ELSE [exc |-> "none",
              dt |-> [kind |-> "datetime", tz |-> replaced.form = "offset", t |-> replaced.t]]

get_candles_range_endpoint(store, ticker, tf_min, start, end, limit, fault) ==
    IF tf_min < 1 \/ ~LimitAccepted(limit) THEN ValidationError
    ELSE LET start_dt == ParseIso(start)
             end_dt == ParseIso(end)
         IN  IF start_dt.exc # "none" \/ end_dt.exc # "none"
             THEN Response(400, "BadRequestError", <<>>, <<>>)
             ELSE IF DatetimeGt(start_dt.dt, end_dt.dt).exc # "none"
             THEN Response(500, "HTTPException", <<>>, <<>>)
             ELSE IF DatetimeGt(start_dt.dt, end_dt.dt).gt
             THEN Response(400, "BadRequestError", <<>>, <<>>)
             ELSE LET r == get_candles_range(store, ticker, tf_min, start_dt.dt, end_dt.dt,
                                             limit, fault)
                  IN  IF r.exc = "none" THEN CandleResponse(r.value, r.trace)
                      ELSE ErrorResponse(r)

---------------------------------------------------------------------------
(* ws.py: replay_candles *)

Sessions == DOMAIN sess

NoException == [type |-> "none", msg |-> ""]

NewSession ==
    [pc |-> "CONNECTING", ticker |-> "", tf_min |-> 0, step_seconds |-> 0,
     candles |-> NoCandles, seq |-> 0, e |-> NoException,
     peer |-> "connected", log |-> <<>>, escaped |-> "none"]

WsStatusMessage(s, message, total_candles) ==
    [type |-> "STATUS", message |-> message, ticker |-> sess[s].ticker,
     tf_min |-> sess[s].tf_min, step_seconds |-> sess[s].step_seconds,
     total_candles |-> total_candles]

(* WsCandleMessage numbering the candles from 1 *)
WsCandleMessage_OneBased(candle, seq) == [type |-> "CANDLE", candle |-> candle, seq |-> seq + 1]

WsCandleMessage(candle, seq) == [type |-> "CANDLE", candle |-> candle, seq |-> seq]

SendEvent(frame, res) == [op |-> "send_json", frame |-> frame, res |-> res]

CloseEvent(code, reason, res) == [op |-> "close", code |-> code, reason |-> reason, res |-> res]

SleepEvent(seconds) == [op |-> "sleep", seconds |-> seconds]

FetchEvent(exc, msg) == [op |-> "get_candles", exc |-> exc, msg |-> msg]

(* what a send_json or a close can do: the peer is there or gone, and any call can fail unexpectedly *)
ChannelOutcomes(s) ==
    IF sess[s].peer = "connected" THEN {"ok", "RuntimeError"}
    ELSE {"WebSocketDisconnect", "RuntimeError"}

TryBody == {"LOADING", "EMPTY_STATUS", "EMPTY_CLOSE", "ANNOUNCING", "STREAMING",
            "SLEEPING", "COMPLETING", "CLOSING"}

TypedHandlers == {"FAIL_STATUS", "FAIL_CLOSE"}

(* Catch with NotFoundError left to the generic except clause *)
Catch_NotFoundUnhandled(pc, type, msg) ==
    IF pc \in TryBody
    THEN IF type = "WebSocketDisconnect"
         THEN [pc |-> "CLOSED", e |-> NoException, escaped |-> "none"]
         ELSE IF type \in {"DatabaseConnectionError", "BadRequestError"}
         THEN [pc |-> "FAIL_STATUS", e |-> [type |-> type, msg |-> msg], escaped |-> "none"]
         ELSE [pc |-> "ERROR_STATUS", e |-> [type |-> type, msg |-> msg], escaped |-> "none"]
    ELSE IF pc \in TypedHandlers
    THEN [pc |-> "CLOSED", e |-> NoException, escaped |-> type]
    ELSE [pc |-> "CLOSED", e |-> NoException, escaped |-> "none"]

(* Catch with the generic except clause also guarding the typed except clauses *)
Catch_HandlersGuarded(pc, type, msg) ==
    IF pc \in TryBody \cup TypedHandlers
    THEN IF type = "WebSocketDisconnect"
         THEN [pc |-> "CLOSED", e |-> NoException, escaped |-> "none"]
         ELSE IF pc \in TryBody
                 /\ type \in {"DatabaseConnectionError", "NotFoundError", "BadRequestError"}
         THEN [pc |-> "FAIL_STATUS", e |-> [type |-> type, msg |-> msg], escaped |-> "none"]
         ELSE [pc |-> "ERROR_STATUS", e |-> [type |-> type, msg |-> msg], escaped |-> "none"]
    ELSE [pc |-> "CLOSED", e |-> NoException, escaped |-> "none"]

(* the except clauses of replay_candles: where an exception raised at pc takes the session *)
Catch(pc, type, msg) ==
    IF pc \in TryBody
    THEN IF type = "WebSocketDisconnect"
         THEN [pc |-> "CLOSED", e |-> NoException, escaped |-> "none"]
         ELSE IF type \in {"DatabaseConnectionError", "NotFoundError", "BadRequestError"}
         THEN [pc |-> "FAIL_STATUS", e |-> [type |-> type, msg |-> msg], escaped |-> "none"]
         ELSE [pc |-> "ERROR_STATUS", e |-> [type |-> type, msg |-> msg], escaped |-> "none"]
    ELSE IF pc \in TypedHandlers
    THEN [pc |-> "CLOSED", e |-> NoException, escaped |-> type]
    ELSE [pc |-> "CLOSED", e |-> NoException, escaped |-> "none"]

(* Resolve that leaves the session where it is when the call failed *)
Resolve_StayOnFailure(s, ev, res, next) ==
    IF res = "ok"
    THEN [sess[s] EXCEPT !.log = Append(@, ev), !.pc = next]
    ELSE sess[s]

(* the session after the pending await at its pc has resolved with res and event ev was recorded;
   next is the pc the code reaches when the call returned *)
Resolve(s, ev, res, next) ==
    IF res = "ok"
    THEN [sess[s] EXCEPT !.log = Append(@, ev), !.pc = next]
    ELSE LET c == Catch(sess[s].pc, res, "")
         IN  [sess[s] EXCEPT !.log = Append(@, ev), !.pc = c.pc, !.e = c.e,
                             !.escaped = c.escaped]

(* await websocket.accept(); the handler then runs get_candles, a blocking call *)
Accept(s) ==
    /\ sess[s].pc = "CONNECTING"
    /\ loop = "idle"
    /\ \E ticker \in ReqTickers, tf_min \in TfChoices, step_seconds \in StepChoices :
          sess' = [sess EXCEPT ![s] = [@ EXCEPT !.pc = "LOADING", !.ticker = ticker,
                                                 !.tf_min = tf_min,
                                                 !.step_seconds = step_seconds]]
    /\ loop' = s
    /\ UNCHANGED <<db, resp>>

PeerDisconnect(s) ==
    /\ sess[s].pc \notin {"CONNECTING", "CLOSED"}
    /\ sess[s].peer = "connected"
    /\ sess' = [sess EXCEPT ![s].peer = "gone"]
    /\ UNCHANGED <<db, loop, resp>>

(* LoadCandles with a list of candles that connections share once one of them has loaded it *)
LoadCandles_SharedCache(s) ==
    /\ sess[s].pc = "LOADING"
    /\ loop = s
    /\ \E fault \in StoreFaults :
          LET r == get_candles(db, sess[s].ticker, sess[s].tf_min, REPLAY_LIMIT, "asc", fault)
              c == Catch("LOADING", r.exc, r.msg)
              loaded == {t \in Sessions : Length(sess[t].candles) > 0}
              shared == IF loaded = {} THEN r.value
                        ELSE sess[CHOOSE t \in loaded : TRUE].candles
          IN  sess' = [sess EXCEPT ![s] =
                  IF r.exc # "none"
                  THEN [@ EXCEPT !.log = Append(@, FetchEvent(r.exc, r.msg)), !.pc = c.pc, !.e = c.e]
                  ELSE [@ EXCEPT !.log = Append(@, FetchEvent("none", "")), !.candles = shared,
                                 !.pc = IF Length(shared) = 0 THEN "EMPTY_STATUS"
                                        ELSE "ANNOUNCING"]]
    /\ loop' = "idle"
    /\ UNCHANGED <<db, resp>>

(* LoadCandles that calls get_candles again after a DatabaseConnectionError *)
LoadCandles_RetryOnFailure(s) ==
    /\ sess[s].pc = "LOADING"
    /\ loop = s
    /\ \E fault \in StoreFaults :
          LET r == get_candles(db, sess[s].ticker, sess[s].tf_min, REPLAY_LIMIT, "asc", fault)
              c == Catch("LOADING", r.exc, r.msg)
              again == r.exc = "DatabaseConnectionError" /\ Len(sess[s].log) < 2
          IN  /\ sess' = [sess EXCEPT ![s] =
                     IF again
                     THEN [@ EXCEPT !.log = Append(@, FetchEvent(r.exc, r.msg))]
                     ELSE IF r.exc # "none"
                     THEN [@ EXCEPT !.log = Append(@, FetchEvent(r.exc, r.msg)), !.pc = c.pc,
                                    !.e = c.e]
                     ELSE [@ EXCEPT !.log = Append(@, FetchEvent("none", "")),
                                    !.candles = r.value,
                                    !.pc = IF Length(r.value) = 0 THEN "EMPTY_STATUS"
                                           ELSE "ANNOUNCING"]]
              /\ loop' = IF again THEN s ELSE "idle"
    /\ UNCHANGED <<db, resp>>

LoadCandles(s) ==
    /\ sess[s].pc = "LOADING"
    /\ loop = s
    /\ \E fault \in StoreFaults :
          LET r == get_candles(db, sess[s].ticker, sess[s].tf_min, REPLAY_LIMIT, "asc", fault)
              c == Catch("LOADING", r.exc, r.msg)
          IN  sess' = [sess EXCEPT ![s] =
                  IF r.exc # "none"
                  THEN [@ EXCEPT !.log = Append(@, FetchEvent(r.exc, r.msg)), !.pc = c.pc, !.e = c.e]
                  ELSE [@ EXCEPT !.log = Append(@, FetchEvent("none", "")), !.candles = r.value,
                                 !.pc = IF Length(r.value) = 0 THEN "EMPTY_STATUS"
                                        ELSE "ANNOUNCING"]]
    /\ loop' = "idle"
    /\ UNCHANGED <<db, resp>>

SendStarting(s) ==
    /\ sess[s].pc = "ANNOUNCING"
    /\ loop = "idle"
    /\ \E res \in ChannelOutcomes(s) :
          sess' = [sess EXCEPT ![s] =
              Resolve(s, SendEvent(WsStatusMessage(s, "replay_starting", Length(sess[s].candles)), res),
                      res, "STREAMING")]
    /\ UNCHANGED <<db, loop, resp>>

(* SleepAfter without the exception for the last candle *)
SleepAfter_EveryCandle(seq, total_candles) == seq < total_candles

SleepAfter(seq, total_candles) == seq < total_candles - 1

SendCandle(s) ==
    /\ sess[s].pc = "STREAMING"
    /\ loop = "idle"
    /\ LET seq == sess[s].seq
           total_candles == Length(sess[s].candles)
           next == IF SleepAfter(seq, total_candles) THEN "SLEEPING" ELSE "COMPLETING"
       IN  \E res \in ChannelOutcomes(s) :
              sess' = [sess EXCEPT ![s] =
                  Resolve(s, SendEvent(WsCandleMessage(CandleAt(sess[s].candles, seq + 1), seq), res),
                          res, next)]
    /\ UNCHANGED <<db, loop, resp>>

Sleep(s) ==
    /\ sess[s].pc = "SLEEPING"
    /\ loop = "idle"
    /\ sess' = [sess EXCEPT ![s] = [@ EXCEPT !.log = Append(@, SleepEvent(sess[s].step_seconds)),
                                             !.seq = @ + 1, !.pc = "STREAMING"]]
    /\ UNCHANGED <<db, loop, resp>>

SendComplete(s) ==
    /\ sess[s].pc = "COMPLETING"
    /\ loop = "idle"
    /\ \E res \in ChannelOutcomes(s) :
          sess' = [sess EXCEPT ![s] =
              Resolve(s, SendEvent(WsStatusMessage(s, "replay_complete", Length(sess[s].candles)), res),
                      res, "CLOSING")]
    /\ UNCHANGED <<db, loop, resp>>

CloseNormal(s) ==
    /\ sess[s].pc = "CLOSING"
    /\ loop = "idle"
    /\ \E res \in ChannelOutcomes(s) :
          sess' = [sess EXCEPT ![s] =
              Resolve(s, CloseEvent(NORMAL_CLOSURE, "", res), res, "CLOSED")]
    /\ UNCHANGED <<db, loop, resp>>

FailureMessage(pc, e) ==
    IF pc = "EMPTY_STATUS" THEN "No candles found for ticker"
    ELSE IF e.type = "DatabaseConnectionError" THEN "Database connection error: " \o e.msg
    ELSE IF e.type = "NotFoundError" THEN e.msg
    ELSE "Invalid request: " \o e.msg

(* FailureCode with one code for every failure *)
FailureCode_AlwaysPolicy(pc, e) == POLICY_VIOLATION

FailureCode(pc, e) ==
    IF pc = "EMPTY_CLOSE" THEN POLICY_VIOLATION
    ELSE IF e.type = "DatabaseConnectionError" THEN INTERNAL_ERROR
    ELSE POLICY_VIOLATION

FailureReason(pc, e) ==
    IF pc = "EMPTY_CLOSE" THEN "No candles found"
    ELSE IF e.type = "DatabaseConnectionError" THEN "Database connection failed"
    ELSE e.msg

(* the STATUS frame of the `if not candles` branch and of the three typed except clauses *)
ReportFailure(s) ==
    /\ sess[s].pc \in {"EMPTY_STATUS", "FAIL_STATUS"}
    /\ loop = "idle"
    /\ \E res \in ChannelOutcomes(s) :
          sess' = [sess EXCEPT ![s] =
              Resolve(s, SendEvent(WsStatusMessage(s, FailureMessage(sess[s].pc, sess[s].e), 0), res),
                      res, IF sess[s].pc = "EMPTY_STATUS" THEN "EMPTY_CLOSE" ELSE "FAIL_CLOSE")]
    /\ UNCHANGED <<db, loop, resp>>

CloseFailure(s) ==
    /\ sess[s].pc \in {"EMPTY_CLOSE", "FAIL_CLOSE"}
    /\ loop = "idle"
    /\ \E res \in ChannelOutcomes(s) :
          sess' = [sess EXCEPT ![s] =
              Resolve(s, CloseEvent(FailureCode(sess[s].pc, sess[s].e),
                                    FailureReason(sess[s].pc, sess[s].e), res),
                      res, "CLOSED")]
    /\ UNCHANGED <<db, loop, resp>>

(* except Exception: one best-effort STATUS frame, then close(1011), both inside try/except *)
ReportError(s) ==
    /\ sess[s].pc = "ERROR_STATUS"
    /\ loop = "idle"
    /\ \E res \in ChannelOutcomes(s) :
          sess' = [sess EXCEPT ![s] =
              Resolve(s, SendEvent(WsStatusMessage(s, "Error: " \o sess[s].e.msg, 0), res),
                      res, "ERROR_CLOSE")]
    /\ UNCHANGED <<db, loop, resp>>

CloseError(s) ==
    /\ sess[s].pc = "ERROR_CLOSE"
    /\ loop = "idle"
    /\ \E res \in ChannelOutcomes(s) :
          sess' = [sess EXCEPT ![s] =
              Resolve(s, CloseEvent(INTERNAL_ERROR, "Internal error", res), res, "CLOSED")]
    /\ UNCHANGED <<db, loop, resp>>

---------------------------------------------------------------------------
(* The replay engine over a small store *)

NoResponse == [op |-> "none"]

ReplayStores ==
    {[k \in DbKeys |-> IF k = <<"ACME", DEFAULT_TF_MIN>> THEN h
                       ELSE IF k = <<"ZED", DEFAULT_TF_MIN>> THEN HistoryOf({1}, {})
                       ELSE EmptyHistory] : h \in Histories}

Init ==
    /\ db \in ReplayStores
    /\ sess = [s \in {"s1"} |-> NewSession]
    /\ loop = "idle"
    /\ resp = NoResponse

Next ==
    \/ \E s \in Sessions : Accept(s)
    \/ \E s \in Sessions : PeerDisconnect(s)
    \/ \E s \in Sessions : LoadCandles(s)
    \/ \E s \in Sessions : SendStarting(s)
    \/ \E s \in Sessions : SendCandle(s)
    \/ \E s \in Sessions : Sleep(s)
    \/ \E s \in Sessions : SendComplete(s)
    \/ \E s \in Sessions : CloseNormal(s)
    \/ \E s \in Sessions : ReportFailure(s)
    \/ \E s \in Sessions : CloseFailure(s)
    \/ \E s \in Sessions : ReportError(s)
    \/ \E s \in Sessions : CloseError(s)

Spec == Init /\ [][Next]_vars

(* a step of the engine for session s: the pending store call, send, close or delay
   returns or fails *)
Step(s) ==
    \/ LoadCandles(s)
    \/ SendStarting(s)
    \/ SendCandle(s)
    \/ Sleep(s)
    \/ SendComplete(s)
    \/ CloseNormal(s)
    \/ ReportFailure(s)
    \/ CloseFailure(s)
    \/ ReportError(s)
    \/ CloseError(s)

(* every pending call of the session eventually returns or fails *)
SpecLive == Spec /\ \A s \in {"s1"} : WF_vars(Step(s))

---------------------------------------------------------------------------
(* Two replay connections served by the one event loop *)

PairStores ==
    {[k \in DbKeys |-> IF k = <<"ACME", DEFAULT_TF_MIN>> THEN HistoryOf({1, 2}, {})
                       ELSE IF k = <<"ZED", DEFAULT_TF_MIN>> THEN HistoryOf({1}, {})
                       ELSE EmptyHistory]}

InitPair ==
    /\ db \in PairStores
    /\ sess = [s \in {"s1", "s2"} |-> NewSession]
    /\ loop = "idle"
    /\ resp = NoResponse

SpecPair == InitPair /\ [][Next]_vars

---------------------------------------------------------------------------
(* The query layer and the REST endpoints, one call or request at a time *)

Idle == resp = NoResponse /\ loop = "idle"

CallListSymbols ==
    /\ Idle
    /\ \E limit \in LimitChoices, prefix \in PrefixChoices, fault \in StoreFaults :
          resp' = [op |-> "list_symbols", limit |-> limit, prefix |-> prefix, fault |-> fault,
                   out |-> list_symbols(db, limit, prefix, fault)]
    /\ UNCHANGED <<db, sess, loop>>

CallGetCandles ==
    /\ Idle
    /\ \E ticker \in ReqTickers, tf_min \in TfInputs, limit \in LimitChoices,
          order \in OrderChoices, fault \in StoreFaults :
          resp' = [op |-> "get_candles", ticker |-> ticker, tf_min |-> tf_min, limit |-> limit,
                   order |-> order, fault |-> fault,
                   out |-> get_candles(db, ticker, tf_min, limit, order, fault)]
    /\ UNCHANGED <<db, sess, loop>>

CallGetCandlesRange ==
    /\ Idle
    /\ \E ticker \in ReqTickers, tf_min \in TfInputs, start \in TimeValues, end \in TimeValues,
          limit \in LimitChoices, fault \in StoreFaults :
          resp' = [op |-> "get_candles_range", ticker |-> ticker, tf_min |-> tf_min,
                   start |-> start, end |-> end, limit |-> limit, fault |-> fault,
                   out |-> get_candles_range(db, ticker, tf_min, start, end, limit, fault)]
    /\ UNCHANGED <<db, sess, loop>>

CallGetFirstLastTs ==
    /\ Idle
    /\ \E ticker \in ReqTickers, tf_min \in TfInputs, fault \in StoreFaults :
          resp' = [op |-> "get_first_last_ts", ticker |-> ticker, tf_min |-> tf_min,
                   fault |-> fault,
                   out |-> get_first_last_ts(db, ticker, tf_min, fault)]
    /\ UNCHANGED <<db, sess, loop>>

RequestHealth ==
    /\ Idle
    /\ \E fault \in StoreFaults :
          resp' = [op |-> "GET /health", fault |-> fault, out |-> health(fault)]
    /\ UNCHANGED <<db, sess, loop>>

RequestSymbols ==
    /\ Idle
    /\ \E limit \in LimitChoices, prefix \in PrefixChoices, fault \in StoreFaults :
          resp' = [op |-> "GET /symbols", limit |-> limit, prefix |-> prefix, fault |-> fault,
                   out |-> get_symbols(db, limit, prefix, fault)]
    /\ UNCHANGED <<db, sess, loop>>

RequestCandles ==
    /\ Idle
    /\ \E ticker \in ReqTickers, tf_min \in TfInputs, limit \in LimitChoices,
          order \in OrderChoices, fault \in StoreFaults :
          resp' = [op |-> "GET /candles", ticker |-> ticker, tf_min |-> tf_min, limit |-> limit,
                   order |-> order, fault |-> fault,
                   out |-> get_candles_endpoint(db, ticker, tf_min, limit, order, fault)]
    /\ UNCHANGED <<db, sess, loop>>

RequestCandlesRange ==
    /\ Idle
    /\ \E ticker \in ReqTickers, tf_min \in TfInputs, start \in TimeStrings, end \in TimeStrings,
          limit \in LimitChoices, fault \in StoreFaults :
          resp' = [op |-> "GET /candles/range", ticker |-> ticker, tf_min |-> tf_min,
                   start |-> start, end |-> end, limit |-> limit, fault |-> fault,
                   out |-> get_candles_range_endpoint(db, ticker, tf_min, start, end, limit, fault)]
    /\ UNCHANGED <<db, sess, loop>>

(* the result goes back to the caller *)
Respond ==
    /\ resp # NoResponse
    /\ resp' = NoResponse
    /\ UNCHANGED <<db, sess, loop>>

QueryStores == {store \in ReplayStores : \A k \in DbKeys : Cardinality(store[k].nulls) <= 1}

InitQuery ==
    /\ db \in QueryStores
    /\ sess = <<>>
    /\ loop = "idle"
    /\ resp = NoResponse

NextQuery ==
    \/ CallListSymbols
    \/ CallGetCandles
    \/ CallGetCandlesRange
    \/ CallGetFirstLastTs
    \/ RequestHealth
    \/ RequestSymbols
    \/ RequestCandles
    \/ RequestCandlesRange
    \/ Respond

SpecQuery == InitQuery /\ [][NextQuery]_vars

---------------------------------------------------------------------------
(* The announcement of a replay over a history longer than the fetch ceiling *)

(* rows at every timestamp 1..REPLAY_LIMIT + 1 *)
LargeHistory == [upto |-> REPLAY_LIMIT + 1, holes |-> {}, nulls |-> {}]

InitLarge ==
    /\ db = [k \in DbKeys |-> IF k = <<"ACME", DEFAULT_TF_MIN>> THEN LargeHistory ELSE EmptyHistory]
    /\ sess = [s \in {"s1"} |-> NewSession]
    /\ loop = "idle"
    /\ resp = NoResponse

NextLarge ==
    \/ \E s \in Sessions : Accept(s)
    \/ \E s \in Sessions : PeerDisconnect(s)
    \/ \E s \in Sessions : LoadCandles(s)
    \/ \E s \in Sessions : SendStarting(s)
    \/ \E s \in Sessions : ReportFailure(s)
    \/ \E s \in Sessions : CloseFailure(s)
    \/ \E s \in Sessions : ReportError(s)
    \/ \E s \in Sessions : CloseError(s)

SpecLarge == InitLarge /\ [][NextLarge]_vars

---------------------------------------------------------------------------
(* Properties of the replay engine *)

Log(s) == sess[s].log

IsSend(ev) == ev.op = "send_json"

IsClose(ev) == ev.op = "close"

IsCandleSend(ev) == IsSend(ev) /\ ev.frame.type = "CANDLE"

IsStatusSend(ev, message) ==
    IsSend(ev) /\ ev.frame.type = "STATUS" /\ ev.frame.message = message

IsChannelOp(ev) == IsSend(ev) \/ IsClose(ev)

(* the sends and closes of a session, in order *)
Frames(s) == SelectSeq(Log(s), IsChannelOp)

Fetched(s) == Len(Log(s)) >= 1 /\ Log(s)[1].op = "get_candles"

AllOk(s) == \A i \in 1..Len(Log(s)) : IsChannelOp(Log(s)[i]) => Log(s)[i].res = "ok"

(* the rows the store holds for the session's ticker and timeframe *)
Stored(s) ==
    IF <<sess[s].ticker, sess[s].tf_min>> \in DOMAIN db
    THEN db[<<sess[s].ticker, sess[s].tf_min>>] ELSE EmptyHistory

(* the i-th send or close of a complete replay of the stored history *)
ExpectedFrame(s, i) ==
    LET H == Stored(s)
        N == Count(H)
    IN  IF i = 1 THEN SendEvent(WsStatusMessage(s, "replay_starting", N), "ok")
        ELSE IF i <= N + 1
        THEN SendEvent(WsCandleMessage(Candle(sess[s].ticker, sess[s].tf_min, RowAt(H, i - 1)), i - 2), "ok")
        ELSE IF i = N + 2 THEN SendEvent(WsStatusMessage(s, "replay_complete", N), "ok")
        ELSE CloseEvent(NORMAL_CLOSURE, "", "ok")

(* C1: a session over a stored history of N >= 1 candles whose fetch succeeds and whose
   sends and close all succeed emits STATUS(replay_starting, N), CANDLE seq 0..N-1 carrying
   the stored candles in ascending ts order, STATUS(replay_complete, N) and close(1000),
   and nothing else: what it has emitted is always a prefix of that sequence and, once
   CLOSED, is that whole sequence *)
C1_ReplayEmitsStoredHistory ==
    \A s \in Sessions :
        (Fetched(s) /\ Log(s)[1].exc = "none" /\ AllOk(s))
            => LET F == Frames(s)
               IN  /\ Len(F) <= Count(Stored(s)) + 3
                   /\ \A i \in 1..Len(F) : F[i] = ExpectedFrame(s, i)
                   /\ sess[s].pc = "CLOSED" => Len(F) = Count(Stored(s)) + 3

(* C2: once a send_json has failed with WebSocketDisconnect the session is CLOSED, that
   send is the last thing the engine did on the channel, and no exception left
   replay_candles *)
C2_DisconnectIsSilent ==
    \A s \in Sessions : \A i \in 1..Len(Log(s)) :
        (IsSend(Log(s)[i]) /\ Log(s)[i].res = "WebSocketDisconnect")
            => /\ i = Len(Log(s))
               /\ sess[s].pc = "CLOSED"
               /\ sess[s].escaped = "none"

KnownFetchOutcomes == {"none", "DatabaseConnectionError", "NotFoundError", "BadRequestError"}

(* an unexpected failure happened before the i-th event of the session *)
UnexpectedBefore(s, i) ==
    \/ Log(s)[1].exc \notin KnownFetchOutcomes
    \/ \E j \in 2..(i - 1) : IsChannelOp(Log(s)[j]) /\ Log(s)[j].res # "ok"

ExpectedCloseCode(s, i) ==
    IF UnexpectedBefore(s, i) THEN INTERNAL_ERROR
    ELSE IF Log(s)[1].exc = "DatabaseConnectionError" THEN INTERNAL_ERROR
    ELSE IF Log(s)[1].exc \in {"NotFoundError", "BadRequestError"} THEN POLICY_VIOLATION
    ELSE NORMAL_CLOSURE

(* C3: every close the engine issues carries the code of the way the session ended: 1011
   after an unexpected failure or a DatabaseConnectionError fetch, 1008 after a
   NotFoundError or BadRequestError fetch, and 1000 otherwise, which happens only right
   after STATUS(replay_complete) was sent *)
C3_CloseCodeByOutcome ==
    \A s \in Sessions : \A i \in 1..Len(Log(s)) :
        IsClose(Log(s)[i])
            => /\ Log(s)[i].code = ExpectedCloseCode(s, i)
               /\ Log(s)[i].code = NORMAL_CLOSURE
                      => /\ IsStatusSend(Log(s)[i - 1], "replay_complete")
                         /\ Log(s)[i - 1].res = "ok"

C3_Witness ==
    \E s \in Sessions :
        /\ sess[s].pc = "CLOSED"
        /\ Log(s)[1].exc = "DatabaseConnectionError"
        /\ IsClose(Log(s)[Len(Log(s))])
        /\ Log(s)[Len(Log(s))].code = INTERNAL_ERROR
        /\ Log(s)[Len(Log(s))].res = "ok"

(* C4: a session for a (ticker, tf_min) with no stored candles never sends a CANDLE frame
   nor a replay_starting or replay_complete status, whatever fails; when the store answers
   and the sends succeed it ends having emitted exactly one STATUS frame with
   total_candles = 0 followed by close(1008) *)
C4_EmptyHistory ==
    \A s \in Sessions :
        (Fetched(s) /\ Count(Stored(s)) = 0)
            => /\ \A i \in 1..Len(Log(s)) :
                      IsSend(Log(s)[i])
                          => /\ Log(s)[i].frame.type = "STATUS"
                             /\ Log(s)[i].frame.total_candles = 0
                             /\ Log(s)[i].frame.message \notin {"replay_starting", "replay_complete"}
               /\ (sess[s].pc = "CLOSED" /\ AllOk(s) /\ Log(s)[1].exc # "DatabaseConnectionError")
                      => /\ Len(Frames(s)) = 2
                         /\ IsSend(Frames(s)[1])
                         /\ IsClose(Frames(s)[2])
                         /\ Frames(s)[2].code = POLICY_VIOLATION

C4_Witness ==
    \E s \in Sessions :
        /\ sess[s].pc = "CLOSED"
        /\ sess[s].ticker = "ACME"
        /\ Count(Stored(s)) = 0
        /\ Log(s)[1].exc = "NotFoundError"
        /\ AllOk(s)
        /\ Len(Frames(s)) = 2

(* C5 as stated: a close, whatever its result, is the last thing the engine does on the
   channel *)
C5_NothingAfterClose ==
    \A s \in Sessions : \A i \in 1..Len(Log(s)) :
        IsClose(Log(s)[i]) => i = Len(Log(s))

(* C5 amended: a close is the last thing the engine does on the channel, except that when
   the normal close (1000) raises an exception other than WebSocketDisconnect the engine
   still attempts one STATUS error frame and then one close(1011), and nothing more *)
C5_NothingAfterCloseUnlessNormalCloseRaised ==
    \A s \in Sessions : \A i \in 1..Len(Log(s)) :
        IsClose(Log(s)[i])
            => \/ i = Len(Log(s))
               \/ /\ Log(s)[i].code = NORMAL_CLOSURE
                  /\ Log(s)[i].res \notin {"ok", "WebSocketDisconnect"}
                  /\ Len(Log(s)) <= i + 2
                  /\ IsSend(Log(s)[i + 1])
                  /\ Log(s)[i + 1].frame.type = "STATUS"
                  /\ Len(Log(s)) = i + 2
                         => /\ IsClose(Log(s)[i + 2])
                            /\ Log(s)[i + 2].code = INTERNAL_ERROR

C5_Witness ==
    \E s \in Sessions : \E i \in 1..Len(Log(s)) :
        /\ sess[s].pc = "CLOSED"
        /\ IsClose(Log(s)[i])
        /\ Log(s)[i].code = NORMAL_CLOSURE
        /\ Log(s)[i].res = "RuntimeError"
        /\ Len(Log(s)) = i + 2
        /\ Log(s)[i + 2].res = "ok"

Sleeps(s) == Len(SelectSeq(Log(s), LAMBDA ev : ev.op = "sleep"))

(* C6: every suspension lasts step_seconds and sits between CANDLE(k) and CANDLE(k+1),
   with nothing else done meanwhile; every CANDLE(k > 0) comes right after the one
   suspension that follows CANDLE(k-1); CANDLE(0) comes right after replay_starting and
   replay_complete right after CANDLE(N-1), with no suspension; a completed replay of N
   candles has suspended N-1 times *)
C6_SuspendBetweenCandlesOnly ==
    \A s \in Sessions :
        LET L == Log(s)
            N == Length(sess[s].candles)
        IN  /\ \A i \in 1..Len(L) :
                   L[i].op = "sleep"
                       => /\ L[i].seconds = sess[s].step_seconds
                          /\ IsCandleSend(L[i - 1])
                          /\ L[i - 1].res = "ok"
                          /\ L[i - 1].frame.seq < N - 1
                          /\ i < Len(L)
                                 => /\ IsCandleSend(L[i + 1])
                                    /\ L[i + 1].frame.seq = L[i - 1].frame.seq + 1
            /\ \A i \in 1..Len(L) :
                   IsCandleSend(L[i])
                       => IF L[i].frame.seq = 0
                          THEN IsStatusSend(L[i - 1], "replay_starting")
                          ELSE /\ L[i - 1].op = "sleep"
                               /\ IsCandleSend(L[i - 2])
                               /\ L[i - 2].frame.seq = L[i].frame.seq - 1
            /\ \A i \in 1..Len(L) :
                   IsStatusSend(L[i], "replay_complete")
                       => /\ IsCandleSend(L[i - 1])
                          /\ L[i - 1].frame.seq = N - 1
            /\ sess[s].pc = "SLEEPING"
                   => /\ IsCandleSend(L[Len(L)])
                      /\ L[Len(L)].res = "ok"
                      /\ L[Len(L)].frame.seq < N - 1
            /\ (sess[s].pc = "CLOSED" /\ IsClose(L[Len(L)]) /\ L[Len(L)].code = NORMAL_CLOSURE)
                   => Sleeps(s) = N - 1

C6_Witness ==
    \E s \in Sessions :
        /\ sess[s].pc = "CLOSED"
        /\ Length(sess[s].candles) = 3
        /\ Log(s)[Len(Log(s))] = CloseEvent(NORMAL_CLOSURE, "", "ok")
        /\ Sleeps(s) = 2

---------------------------------------------------------------------------
(* Properties of the query layer and the REST endpoints *)

RestOps == {"GET /symbols", "GET /candles", "GET /candles/range"}

QueryOps == {"list_symbols", "get_candles", "get_candles_range", "get_first_last_ts"}

(* a client-input rejection: the declared query constraint's 422 or BadRequestError's 400 *)
InvalidArgument(out) ==
    \/ out.status = 422 /\ out.error = "RequestValidationError"
    \/ out.status = 400 /\ out.error = "BadRequestError"

(* C7: a request to /symbols, /candles or /candles/range whose limit is below 1 or
   above MAX_LIMIT is rejected as an invalid argument, and no connection is opened
   and no query is executed for it. *)
C7_LimitOutOfRangeRejected ==
    (resp.op \in RestOps /\ (resp.limit < 1 \/ resp.limit > MAX_LIMIT)) =>
        /\ InvalidArgument(resp.out)
        /\ resp.out.trace = <<>>

C7_Witness ==
    /\ resp.op = "GET /candles/range"
    /\ resp.limit > MAX_LIMIT
    /\ resp.ticker = "ACME" /\ resp.tf_min = DEFAULT_TF_MIN
    /\ resp.start.form = "Z" /\ resp.end.form = "Z" /\ resp.start.t < resp.end.t
    /\ resp.fault = "none"
    /\ InvalidArgument(resp.out)

(* C8: every query-layer call returns a result or fails with BadRequestError,
   NotFoundError or DatabaseConnectionError; no other exception escapes it. *)
C8_FourOutcomes ==
    resp.op \in QueryOps =>
        resp.out.exc \in {"none", "BadRequestError", "NotFoundError", "DatabaseConnectionError"}

ValidKey(r) == strip(r.ticker) # "" /\ r.tf_min >= 1

Matching(r) ==
    IF <<r.ticker, r.tf_min>> \in DOMAIN db THEN db[<<r.ticker, r.tf_min>>] ELSE EmptyHistory

RowTimestamps(h) == (1..h.upto) \ h.holes

ValidRange(r) ==
    /\ r.start.kind = "datetime" /\ r.end.kind = "datetime"
    /\ r.start.tz = r.end.tz
    /\ r.start.t <= r.end.t

(* the call resp met no matching row *)
ZeroRows ==
    \/ /\ resp.op = "get_candles"
       /\ ValidKey(resp) /\ resp.limit >= 1 /\ resp.order \in {"asc", "desc"}
       /\ RowTimestamps(Matching(resp)) = {}
    \/ /\ resp.op = "get_candles_range"
       /\ ValidKey(resp) /\ resp.limit >= 1 /\ ValidRange(resp)
       /\ RowTimestamps(Matching(resp)) \cap (resp.start.t..resp.end.t) = {}
    \/ /\ resp.op = "list_symbols"
       /\ resp.limit >= 1
       /\ SelectSymbols(db, resp.prefix, 1) = <<>>
    \/ /\ resp.op = "get_first_last_ts"
       /\ ValidKey(resp)
       /\ RowTimestamps(Matching(resp)) = {}

(* C9: on zero matching rows get_candles and get_candles_range raise NotFoundError,
   and never return an empty list, while list_symbols returns an empty list and
   get_first_last_ts returns None; a failing store is the only other outcome. *)
C9_ZeroRows ==
    /\ ZeroRows =>
          /\ resp.out.exc \in {IF resp.op \in {"get_candles", "get_candles_range"}
                               THEN "NotFoundError" ELSE "none",
                               "DatabaseConnectionError"}
          /\ resp.fault = "none" => resp.out.exc # "DatabaseConnectionError"
          /\ resp.out.exc = "none" => resp.out.value = <<>>
    /\ (resp.op \in {"get_candles", "get_candles_range"} /\ resp.out.exc = "none") =>
          Length(resp.out.value) >= 1

C9_Witness ==
    /\ ZeroRows
    /\ resp.op = "get_candles_range"
    /\ RowTimestamps(Matching(resp)) # {}
    /\ resp.fault = "none"
    /\ resp.out.exc = "NotFoundError"

(* C10: a /candles/range request whose start is later than its end is rejected as an
   invalid argument whatever its ticker, tf_min and limit and whatever the store holds
   or answers, and no connection is opened and no query is executed for it. *)
C10_StartAfterEndRejected ==
    (/\ resp.op = "GET /candles/range"
     /\ resp.start.form # "garbage" /\ resp.end.form # "garbage"
     /\ resp.start.t > resp.end.t) =>
        /\ InvalidArgument(resp.out)
        /\ resp.out.trace = <<>>

(* the whole ascending history of (ticker, tf_min) as get_candles returns it *)
WholeAscending(ticker, tf_min) == get_candles(db, ticker, tf_min, REPLAY_LIMIT, "asc", "none")

(* C11: when get_candles_range succeeds, its result is exactly the first
   min(limit, count) candles, in the same order, of the ascending get_candles result
   restricted to the timestamps in [start, end], both ends included. *)
C11_RangeIsPrefixOfRestrictedHistory ==
    (resp.op = "get_candles_range" /\ resp.out.exc = "none") =>
        LET whole == WholeAscending(resp.ticker, resp.tf_min)
            InRange(c) == c.ts >= resp.start.t /\ c.ts <= resp.end.t
            restricted == SelectSeq(Items(whole.value), InRange)
        IN  whole.exc = "none" =>
                /\ resp.start.t <= resp.end.t /\ resp.limit >= 1
                /\ Items(resp.out.value)
                     = SubSeq(restricted, 1, Min2(resp.limit, Len(restricted)))

C11_Witness ==
    /\ resp.op = "get_candles_range" /\ resp.out.exc = "none"
    /\ WholeAscending(resp.ticker, resp.tf_min).exc = "none"
    /\ Length(WholeAscending(resp.ticker, resp.tf_min).value) = 3
    /\ resp.start.t = 2 /\ resp.end.t = 3
    /\ resp.limit = 1
    /\ Length(resp.out.value) = 1

RECURSIVE Ascending(_)
(* the numbers of S, smallest first *)
Ascending(S) == IF S = {} THEN <<>> ELSE <<SetMin(S)>> \o Ascending(S \ {SetMin(S)})

(* the stored timestamps of exactly (ticker, tf_min), sorted by order, then cut to limit *)
SortedThenCut(ticker, tf_min, order, limit) ==
    LET key == <<ticker, tf_min>>
        stored == IF key \in DOMAIN db THEN RowTimestamps(db[key]) ELSE {}
        sorted == IF order = "desc" THEN Reverse(Ascending(stored)) ELSE Ascending(stored)
    IN  SubSeq(sorted, 1, Min2(limit, Len(sorted)))

CandlesAre(data, ticker, tf_min, stamps) ==
    /\ Len(data) = Len(stamps)
    /\ \A i \in 1..Len(data) :
          /\ data[i].ticker = ticker
          /\ data[i].tf_min = tf_min
          /\ data[i].ts = stamps[i]

(* C12: get_candles returns the stored candles of exactly the requested ticker and
   timeframe, sorted by timestamp in the requested order and cut to limit after the
   sort (desc with limit k: the k latest, newest first; asc: the k earliest, oldest
   first); the /candles response carries the same list and count = length of data. *)
C12_SortedThenTruncated ==
    /\ (resp.op = "get_candles" /\ resp.out.exc = "none") =>
          CandlesAre(Items(resp.out.value), resp.ticker, resp.tf_min,
                     SortedThenCut(resp.ticker, resp.tf_min, resp.order, resp.limit))
    /\ (resp.op = "GET /candles" /\ resp.out.status = 200) =>
          /\ CandlesAre(resp.out.data, resp.ticker, resp.tf_min,
                        SortedThenCut(resp.ticker, resp.tf_min, resp.order, resp.limit))
          /\ resp.out.count = Len(resp.out.data)

C12_Witness ==
    /\ resp.op = "GET /candles" /\ resp.out.status = 200
    /\ resp.ticker = "ACME" /\ resp.tf_min = DEFAULT_TF_MIN
    /\ RowTimestamps(Matching(resp)) = {1, 2, 3}
    /\ resp.order = "desc" /\ resp.limit = 2
    /\ resp.out.count = 2
    /\ resp.out.data[1].ts = 3 /\ resp.out.data[2].ts = 2

---------------------------------------------------------------------------
(* Properties of concurrent replay sessions *)

(* the session's pending step is the send of a frame *)
FramePending(s) ==
    sess[s].pc \in {"ANNOUNCING", "STREAMING", "COMPLETING", "EMPTY_STATUS", "FAIL_STATUS",
                    "ERROR_STATUS"}

EmitNext(s) ==
    \/ SendStarting(s)
    \/ SendCandle(s)
    \/ SendComplete(s)
    \/ ReportFailure(s)
    \/ ReportError(s)

(* C13: while a session waits for its history fetch or for its pacing delay, any other
   session whose next step is the send of a frame can take that step. *)
C13_SuspensionNeverBlocksOthers ==
    \A a \in Sessions : \A b \in Sessions \ {a} :
        (sess[a].pc \in {"LOADING", "SLEEPING"} /\ FramePending(b)) => ENABLED EmitNext(b)

(* what the session's surroundings answered to an event: the fetch's outcome, a send's
   or close's result *)
Outcome(ev) ==
    IF ev.op = "get_candles" THEN ev.exc \o ": " \o ev.msg
    ELSE IF IsChannelOp(ev) THEN ev.res
    ELSE "ok"

(* what the engine did in an event, without the answer it got *)
Attempt(ev) ==
    IF ev.op = "get_candles" THEN [ev EXCEPT !.exc = "none", !.msg = ""]
    ELSE IF IsChannelOp(ev) THEN [ev EXCEPT !.res = "ok"]
    ELSE ev

SameRequest(a, b) ==
    /\ sess[a].ticker = sess[b].ticker
    /\ sess[a].tf_min = sess[b].tf_min
    /\ sess[a].step_seconds = sess[b].step_seconds

(* C14: under any interleaving of two connections each replay starts at seq 0, and what
   a session does next depends only on its own ticker, tf_min and step_seconds, the
   store and the answers it got itself: two sessions with the same request that got
   the same answers so far do the same thing next, wherever the other one stands, and
   a session whose fetch and sends succeed emits the replay of its own stored history. *)
C14_SessionsAreIsolated ==
    /\ \A s \in Sessions : \A i \in 1..Len(Log(s)) :
          (IsCandleSend(Log(s)[i]) /\ \A j \in 1..(i - 1) : ~IsCandleSend(Log(s)[j]))
              => Log(s)[i].frame.seq = 0
    /\ \A a \in Sessions : \A b \in Sessions \ {a} :
          SameRequest(a, b) =>
              \A i \in 1..Min2(Len(Log(a)), Len(Log(b))) :
                  (\A j \in 1..(i - 1) : Outcome(Log(a)[j]) = Outcome(Log(b)[j]))
                      => Attempt(Log(a)[i]) = Attempt(Log(b)[i])
    /\ \A s \in Sessions :
          (Fetched(s) /\ Log(s)[1].exc = "none" /\ AllOk(s))
              => \A i \in 1..Len(Frames(s)) : Frames(s)[i] = ExpectedFrame(s, i)

C14_Witness ==
    \E a \in Sessions : \E b \in Sessions \ {a} :
        /\ SameRequest(a, b)
        /\ sess[a].ticker = "ACME" /\ sess[a].tf_min = DEFAULT_TF_MIN
        /\ sess[a].pc = "CLOSED" /\ AllOk(a) /\ Len(Frames(a)) = Count(Stored(a)) + 3
        /\ sess[b].pc = "CLOSED" /\ Len(Log(b)) = 3
        /\ Log(b)[3].res = "WebSocketDisconnect"

---------------------------------------------------------------------------
(* Properties of the health endpoint *)

(* C15: /health answers degraded whenever the store check fails, in opening the
   connection or in the probe query, and answers ok with database connected only when
   the connection and the probe query both succeeded. *)
C15_HealthDegradedOnAnyFailure ==
    resp.op = "GET /health" =>
        /\ resp.fault # "none" => resp.out.body.status = "degraded"
        /\ (resp.out.body.status = "ok" /\ resp.out.body.database = "connected")
              => resp.fault = "none"

---------------------------------------------------------------------------
(* Further properties of the replay engine *)

(* C16: when the history fetch fails with NotFoundError, the STATUS frame the session
   sends before closing has the message "No candles found for ticker" and
   total_candles 0. *)
C16_NotFoundStatusMessage ==
    \A s \in Sessions :
        (Fetched(s) /\ Log(s)[1].exc = "NotFoundError" /\ Len(Log(s)) >= 2)
            => /\ IsSend(Log(s)[2])
               /\ Log(s)[2].frame.type = "STATUS"
               /\ Log(s)[2].frame.message = "No candles found for ticker"
               /\ Log(s)[2].frame.total_candles = 0

(* C17: a session calls get_candles at most once, after the channel was accepted and
   before anything is sent or closed; a failed fetch is not tried again and nothing is
   fetched while streaming. *)
C17_FetchOnce ==
    \A s \in Sessions :
        /\ sess[s].pc = "CONNECTING" => Log(s) = <<>>
        /\ sess[s].pc = "LOADING" => Log(s) = <<>>
        /\ Len(Log(s)) >= 1 => Log(s)[1].op = "get_candles"
        /\ \A i \in 2..Len(Log(s)) : Log(s)[i].op # "get_candles"

C17_Witness ==
    \E s \in Sessions :
        /\ sess[s].pc = "CLOSED"
        /\ Log(s)[1].exc = "DatabaseConnectionError"
        /\ Len(Log(s)) = 3
        /\ IsSend(Log(s)[2]) /\ IsClose(Log(s)[3])

(* the CANDLE frames the session has sent or tried to send, in order *)
CandleSends(s) == SelectSeq(Log(s), IsCandleSend)

(* C18: the cursor starts at 0 and goes up by exactly 1 per CANDLE frame: the k-th
   CANDLE frame has seq k-1, below the length N of the fetched sequence, and carries
   the element at that position of the stored history in ascending order, so the
   timestamps of the frames strictly increase with seq. *)
C18_CursorFollowsAscendingFetch ==
    \A s \in Sessions :
        LET K == CandleSends(s)
            N == Length(sess[s].candles)
            ascending == Ascending(RowTimestamps(Stored(s)))
        IN  /\ sess[s].seq = IF sess[s].pc = "STREAMING" THEN Len(K) ELSE Max2(0, Len(K) - 1)
            /\ Len(K) > 0 => sess[s].seq < N
            /\ \A k \in 1..Len(K) :
                  /\ K[k].frame.seq = k - 1
                  /\ K[k].frame.seq < N
                  /\ N <= Len(ascending)
                  /\ K[k].frame.candle.ts = ascending[k]
                  /\ k > 1 => K[k].frame.candle.ts > K[k - 1].frame.candle.ts

C18_Witness ==
    \E s \in Sessions :
        /\ sess[s].pc = "CLOSED"
        /\ Log(s)[Len(Log(s))] = CloseEvent(NORMAL_CLOSURE, "", "ok")
        /\ RowTimestamps(Stored(s)) = {1, 3}
        /\ Len(CandleSends(s)) = 2
        /\ CandleSends(s)[2].frame.seq = 1
        /\ CandleSends(s)[2].frame.candle.ts = 3

(* the i-th event of the session met an unexpected failure: a fetch failure of no known
   kind, or a send or close that raised something other than WebSocketDisconnect *)
UnexpectedAt(s, i) ==
    IF Log(s)[i].op = "get_candles" THEN Log(s)[i].exc \notin KnownFetchOutcomes
    ELSE IsChannelOp(Log(s)[i]) /\ Log(s)[i].res \notin {"ok", "WebSocketDisconnect"}

(* C19: after the first unexpected failure of a session, in whatever state, the engine
   attempts one STATUS frame with an error message and then one close with 1011, and
   nothing more; if that send or that close fails it stops at once; no exception
   leaves the engine. *)
C19_UnexpectedFailureBestEffort ==
    \A s \in Sessions : \A i \in 1..Len(Log(s)) :
        (UnexpectedAt(s, i) /\ \A j \in 1..(i - 1) : ~UnexpectedAt(s, j))
            => LET L == Log(s)
               IN  /\ sess[s].escaped = "none"
                   /\ sess[s].pc = "CLOSED" => Len(L) >= i + 1
                   /\ Len(L) <= i + 2
                   /\ Len(L) >= i + 1
                         => /\ IsSend(L[i + 1])
                            /\ L[i + 1].frame.type = "STATUS"
                            /\ L[i + 1].frame.message
                                  = "Error: " \o (IF L[i].op = "get_candles" THEN L[i].msg ELSE "")
                   /\ Len(L) = i + 2
                         => /\ L[i + 1].res = "ok"
                            /\ IsClose(L[i + 2])
                            /\ L[i + 2].code = INTERNAL_ERROR

---------------------------------------------------------------------------
(* Validation before the store *)

(* an argument of the query-layer call resp fails validation *)
FailsValidation ==
    \/ /\ resp.op = "list_symbols"
       /\ resp.limit < 1
    \/ /\ resp.op = "get_candles"
       /\ \/ strip(resp.ticker) = "" \/ resp.tf_min < 1 \/ resp.limit < 1
          \/ resp.order \notin {"asc", "desc"}
    \/ /\ resp.op = "get_candles_range"
       /\ \/ strip(resp.ticker) = "" \/ resp.tf_min < 1 \/ resp.limit < 1
          \/ resp.start.kind # "datetime" \/ resp.end.kind # "datetime"
          \/ resp.start.t > resp.end.t
    \/ /\ resp.op = "get_first_last_ts"
       /\ \/ strip(resp.ticker) = "" \/ resp.tf_min < 1

(* C20: a query-layer call with an argument that fails validation raises
   BadRequestError without opening a connection or executing a query; a replay
   session whose fetch fails validation sends a STATUS frame and closes with 1008. *)
C20_ValidationBeforeStore ==
    /\ FailsValidation =>
          /\ resp.out.exc = "BadRequestError"
          /\ resp.out.trace = <<>>
    /\ \A s \in Sessions :
          (Fetched(s) /\ strip(sess[s].ticker) = "") =>
              /\ Log(s)[1].exc = "BadRequestError"
              /\ Len(Log(s)) >= 2 => IsSend(Log(s)[2]) /\ Log(s)[2].frame.type = "STATUS"
              /\ (Len(Log(s)) >= 3 /\ Log(s)[2].res = "ok")
                    => IsClose(Log(s)[3]) /\ Log(s)[3].code = POLICY_VIOLATION

---------------------------------------------------------------------------
(* Termination of a replay session *)

(* C21: an accepted session eventually reaches CLOSED when its store call, its sends
   and closes and its pacing delays return or fail; it sends at most N CANDLE frames;
   and in no state between acceptance and CLOSED is the session without a next step. *)
C21_AcceptedSessionTerminates ==
    /\ \A s \in {"s1"} : (sess[s].pc # "CONNECTING") ~> (sess[s].pc = "CLOSED")
    /\ [](\A s \in Sessions :
            /\ Len(CandleSends(s)) <= Count(Stored(s))
            /\ sess[s].pc \notin {"CONNECTING", "CLOSED"} => ENABLED Step(s))

C21_Witness ==
    \E s \in Sessions :
        /\ sess[s].pc = "CLOSED"
        /\ Count(Stored(s)) = 3
        /\ Len(CandleSends(s)) = 3
        /\ Log(s)[Len(Log(s))] = CloseEvent(NORMAL_CLOSURE, "", "ok")

(* C22: once the channel is accepted no exception leaves replay_candles: whatever
   happens, also while a fetch failure is being reported, the routine returns
   normally. *)
C22_NoExceptionEscapes ==
    \A s \in Sessions : sess[s].escaped = "none"

---------------------------------------------------------------------------
(* Store connections *)

(* the connections a sequence of store operations leaves open; a connect that was
   refused opens none, one that succeeded is followed by the statement-timeout setup *)
OpenConnections(trace) ==
    Len(SelectSeq(trace, LAMBDA op : op = "set_statement_timeout"))
        - Len(SelectSeq(trace, LAMBDA op : op = "close"))

(* C23: when a query-layer call, a REST request or the health check returns or raises,
   every store connection it opened has been closed: none is left open. *)
C23_ConnectionsClosed ==
    resp.op # "none" => OpenConnections(resp.out.trace) = 0

---------------------------------------------------------------------------
(* Validation of the range bounds *)

(* C24: a /candles/range request that passes the declared parameter constraints is
   either rejected with 400 BadRequestError before any store call, because a bound
   does not parse or start is later than end, or its store lookup is issued; no pair
   of start and end strings gives anything else, such as a 500 response. *)
C24_RangeBoundsRejectedOrLookedUp ==
    (resp.op = "GET /candles/range" /\ resp.tf_min >= 1 /\ LimitAccepted(resp.limit)) =>
        \/ /\ resp.out.status = 400
           /\ resp.out.error = "BadRequestError"
           /\ resp.out.trace = <<>>
        \/ /\ resp.out.trace # <<>>
           /\ resp.start.form # "garbage" /\ resp.end.form # "garbage"

=============================================================================
